---- MODULE Spec2Model ----
(***************************************************************************)
(* Budget allocator of zipaJopa/agent-controller (src/budget_allocator.py) *)
(* as a state machine.                                                     *)
(*                                                                         *)
(* Money is held in thousandths of a USDT (40.00 USDT = 40000), with exact *)
(* decimal arithmetic; round(x, 2) is rounding to a multiple of 10 units.  *)
(* Percentages are held in hundredths (0.30 = 30).  Binary floating-point  *)
(* representation error (order 1e-14) is outside the model.               *)
(*                                                                         *)
(* Spec is the ledger under request_capital_for_trade, report_trade_close  *)
(* and rebalance_allocations, with the store reduced to the last ledger    *)
(* saved.  StoreSpec is the persistence of the ledger: the document in the *)
(* store, its version token (sha), _load_state, _save_state,              *)
(* get_full_state_for_ui and the requests and closes of allocators on a    *)
(* store that can refuse a write; there the variables hold the allocator's *)
(* dictionary, the file in the store, the last call and the clock.         *)
(* BreakerSpec is _check_circuit_breakers on ledgers over a range of       *)
(* budgets, peaks and statuses.                                            *)
(* LogSpec is _log_event on logs below and at the cap of 100 entries.      *)
(* RetrySpec is create_or_update_file against a store with more answers    *)
(* ready than _request asks for.  DeploySpec is the budget check of        *)
(* deploy_single_agent (src/wave2_agents.py) on the ledger it reads.       *)
(***************************************************************************)
EXTENDS Integers, Sequences, FiniteSets, TLC

VARIABLES state, store, result, history

vars == <<state, store, result, history>>

(***************************************************************************)
(* Bounds of the exploration.                                              *)
(***************************************************************************)
\* approved requests, matched closes and rebalances of one run
MaxOps == 5

\* request_capital_for_trade(strategy_name, requested_usdt, position_id)
RequestInputs ==
    {<<"pionex_btc_eth_grid", 10000, "p1">>,
     <<"crypto_rsi_momentum_altcoins", 2556, "p1">>,
     <<"crypto_rsi_momentum_altcoins", 10000, "p2">>,
     <<"crypto_rsi_momentum_altcoins", 5, "p2">>,
     <<"github_arbitrage_automation", 10000, "p1">>,
     <<"no_such_strategy", 10000, "p1">>}

\* report_trade_close(strategy_name, position_id, pnl_usdt)
ClosedStrategies ==
    {"pionex_btc_eth_grid", "crypto_rsi_momentum_altcoins", "no_such_strategy"}

PositionIds == {"p1", "p2"}

PnlAmounts == {-12000, -1600, 0, 12000}

\* what the store answers to a write; the runs explored here have a store
\* that accepts every write
SaveOutcomes == {"saved", "failed"}

StoreAnswers == {"saved"}

(***************************************************************************)
(* Configuration (module constants of budget_allocator.py).                *)
(***************************************************************************)
TOTAL_INITIAL_BUDGET_USDT == 40000

RISK_TIER_CONFIG ==
    [conservative |-> [percentage |-> 30, max_loss_pct_of_tier |-> 10],
     moderate     |-> [percentage |-> 40, max_loss_pct_of_tier |-> 15],
     aggressive   |-> [percentage |-> 30, max_loss_pct_of_tier |-> 25]]

STRATEGY_CONFIG ==
    [pionex_btc_eth_grid |->
        [risk_tier |-> "conservative", tier_share_percentage |-> 60,
         max_capital_per_trade_usdt |-> 6000, max_concurrent_positions |-> 1,
         requires_capital |-> TRUE],
     defi_stablecoin_yield |->
        [risk_tier |-> "conservative", tier_share_percentage |-> 40,
         max_capital_per_trade_usdt |-> 4000, max_concurrent_positions |-> 1,
         requires_capital |-> TRUE],
     crypto_rsi_momentum_altcoins |->
        [risk_tier |-> "moderate", tier_share_percentage |-> 50,
         max_capital_per_trade_usdt |-> 5000, max_concurrent_positions |-> 2,
         requires_capital |-> TRUE],
     github_arbitrage_automation |->
        [risk_tier |-> "moderate", tier_share_percentage |-> 25,
         max_capital_per_trade_usdt |-> 0, max_concurrent_positions |-> 5,
         requires_capital |-> FALSE],
     api_wrapper_generation_service |->
        [risk_tier |-> "moderate", tier_share_percentage |-> 25,
         max_capital_per_trade_usdt |-> 0, max_concurrent_positions |-> 3,
         requires_capital |-> FALSE],
     memecoin_early_detection_trade |->
        [risk_tier |-> "aggressive", tier_share_percentage |-> 70,
         max_capital_per_trade_usdt |-> 3000, max_concurrent_positions |-> 3,
         requires_capital |-> TRUE],
     nft_micro_cap_flips |->
        [risk_tier |-> "aggressive", tier_share_percentage |-> 30,
         max_capital_per_trade_usdt |-> 3000, max_concurrent_positions |-> 1,
         requires_capital |-> TRUE]]

TierNames == DOMAIN RISK_TIER_CONFIG

StrategyNames == DOMAIN STRATEGY_CONFIG

TOTAL_PORTFOLIO_MAX_DRAWDOWN_PCT_FROM_INITIAL == 30

TOTAL_PORTFOLIO_MAX_DRAWDOWN_PCT_FROM_PEAK == 20

DUST_THRESHOLD == 10

(***************************************************************************)
(* Arithmetic helpers.                                                     *)
(***************************************************************************)
\* round(num / den, 2) for den > 0: the rational num/den (in thousandths)
\* rounded to the nearest multiple of 10, ties to the even cent.
Round2(num, den) ==
    LET cents == num \div (den * 10)
        rest  == num - cents * den * 10
    IN  IF 2 * rest < den * 10 THEN cents * 10
        ELSE IF 2 * rest > den * 10 THEN (cents + 1) * 10
        ELSE IF cents % 2 = 0 THEN cents * 10 ELSE (cents + 1) * 10

Min3(a, b, c) ==
    LET ab == IF a <= b THEN a ELSE b
    IN  IF ab <= c THEN ab ELSE c

\* max(0, a) without the floor
Max0_NoFloor(a) == a

Max0(a) == IF a >= 0 THEN a ELSE 0

RECURSIVE SumOver(_, _)
SumOver(f, S) ==
    IF S = {} THEN 0
    ELSE LET x == CHOOSE y \in S : TRUE
         IN  f[x] + SumOver(f, S \ {x})

(***************************************************************************)
(* _initialize_allocations                                                 *)
(***************************************************************************)
\* Sum of tier_share_percentage over every strategy of a tier.
TotalShareForCapitalStrategiesInTier_AllStrategies(tier_name) ==
    LET S == {s \in StrategyNames : STRATEGY_CONFIG[s].risk_tier = tier_name}
    IN  SumOver([s \in S |-> STRATEGY_CONFIG[s].tier_share_percentage], S)

\* Sum of tier_share_percentage over the capital-requiring strategies of a tier.
TotalShareForCapitalStrategiesInTier(tier_name) ==
    LET S == {s \in StrategyNames :
                 /\ STRATEGY_CONFIG[s].risk_tier = tier_name
                 /\ STRATEGY_CONFIG[s].requires_capital}
    IN  SumOver([s \in S |-> STRATEGY_CONFIG[s].tier_share_percentage], S)

InitTiers(total_budget) ==
    [t \in TierNames |->
        [total_capital_usdt |->
            Round2(total_budget * RISK_TIER_CONFIG[t].percentage, 100),
         available_capital_usdt |->
            Round2(total_budget * RISK_TIER_CONFIG[t].percentage, 100),
         current_pnl_usdt |-> 0,
         max_loss_threshold_usdt |->
            Round2(total_budget * RISK_TIER_CONFIG[t].percentage
                       * RISK_TIER_CONFIG[t].max_loss_pct_of_tier, 10000)]]

InitStrategies(tiers) ==
    [s \in StrategyNames |->
        LET cfg   == STRATEGY_CONFIG[s]
            tier  == tiers[cfg.risk_tier]
            D     == TotalShareForCapitalStrategiesInTier(cfg.risk_tier)
            alloc == IF cfg.requires_capital /\ D # 0
                     THEN Round2(tier.available_capital_usdt
                                     * cfg.tier_share_percentage, D)
                     ELSE 0
        IN  [risk_tier |-> cfg.risk_tier,
             tier_share_percentage |-> cfg.tier_share_percentage,
             potential_capital_usdt |->
                 Round2(tier.total_capital_usdt * cfg.tier_share_percentage, 100),
             allocated_capital_usdt |-> alloc,
             available_for_new_positions_usdt |-> alloc,
             capital_in_use_usdt |-> 0,
             current_pnl_usdt |-> 0,
             max_capital_per_trade_usdt |-> cfg.max_capital_per_trade_usdt,
             max_concurrent_positions |-> cfg.max_concurrent_positions,
             requires_capital |-> cfg.requires_capital]]

\* a rebalance that applies the overall P&L to the budget once more
InitializeAllocations_ReappliesPnl(st) ==
    LET tiers == InitTiers(st.current_total_budget_usdt + st.overall_pnl_usdt)
    IN  [st EXCEPT !.risk_tiers = tiers,
                   !.strategies = InitStrategies(tiers),
                   !.current_total_budget_usdt = @ + st.overall_pnl_usdt]

\* a recomputation that also empties the lists of active positions
InitializeAllocations_ClearsPositions(st) ==
    LET tiers == InitTiers(st.current_total_budget_usdt)
    IN  [st EXCEPT !.risk_tiers = tiers,
                   !.strategies = InitStrategies(tiers),
                   !.active_positions_by_strategy =
                       [s \in DOMAIN @ |-> <<>>]]

InitializeAllocations(st) ==
    LET tiers == InitTiers(st.current_total_budget_usdt)
    IN  [st EXCEPT !.risk_tiers = tiers,
                   !.strategies = InitStrategies(tiers)]

(***************************************************************************)
(* _default_state and the genesis branch of _load_state                    *)
(***************************************************************************)
DefaultState(initial_budget) ==
    [initial_budget_usdt |-> initial_budget,
     current_total_budget_usdt |-> initial_budget,
     peak_total_budget_usdt |-> initial_budget,
     overall_pnl_usdt |-> 0,
     risk_tiers |-> [t \in {} |-> 0],
     strategies |-> [s \in {} |-> 0],
     active_positions_by_strategy |-> [s \in StrategyNames |-> <<>>],
     circuit_breaker_status |-> "active"]

GenesisState == InitializeAllocations(DefaultState(TOTAL_INITIAL_BUDGET_USDT))

(***************************************************************************)
(* _check_circuit_breakers                                                 *)
(***************************************************************************)
Tripped(status) ==
    status \in {"total_drawdown_initial_tripped", "total_drawdown_peak_tripped"}

DrawdownFromInitialHit_Strict(st) ==
    (st.initial_budget_usdt - st.current_total_budget_usdt) * 100
        > TOTAL_PORTFOLIO_MAX_DRAWDOWN_PCT_FROM_INITIAL * st.initial_budget_usdt

\* drawdown_from_initial >= TOTAL_PORTFOLIO_MAX_DRAWDOWN_PCT_FROM_INITIAL
DrawdownFromInitialHit(st) ==
    (st.initial_budget_usdt - st.current_total_budget_usdt) * 100
        >= TOTAL_PORTFOLIO_MAX_DRAWDOWN_PCT_FROM_INITIAL * st.initial_budget_usdt

\* peak > initial and drawdown_from_peak >= TOTAL_PORTFOLIO_MAX_DRAWDOWN_PCT_FROM_PEAK
DrawdownFromPeakHit(st) ==
    /\ st.peak_total_budget_usdt > st.initial_budget_usdt
    /\ (st.peak_total_budget_usdt - st.current_total_budget_usdt) * 100
           >= TOTAL_PORTFOLIO_MAX_DRAWDOWN_PCT_FROM_PEAK * st.peak_total_budget_usdt

\* an evaluation that looks at the drawdown from the peak first
CheckCircuitBreakers_PeakFirst(st) ==
    IF DrawdownFromPeakHit(st) THEN "total_drawdown_peak_tripped"
    ELSE IF DrawdownFromInitialHit(st) THEN "total_drawdown_initial_tripped"
    ELSE IF Tripped(st.circuit_breaker_status) THEN st.circuit_breaker_status
    ELSE "active"

\* an evaluation that sets the status back to active when no drawdown holds
CheckCircuitBreakers_AutoReset(st) ==
    IF DrawdownFromInitialHit(st) THEN "total_drawdown_initial_tripped"
    ELSE IF DrawdownFromPeakHit(st) THEN "total_drawdown_peak_tripped"
    ELSE "active"

\* The status the evaluation leaves in the ledger.
CheckCircuitBreakers(st) ==
    IF DrawdownFromInitialHit(st) THEN "total_drawdown_initial_tripped"
    ELSE IF DrawdownFromPeakHit(st) THEN "total_drawdown_peak_tripped"
    ELSE IF Tripped(st.circuit_breaker_status) THEN st.circuit_breaker_status
    ELSE "active"

(***************************************************************************)
(* _save_state: the document is written when the store accepts the write.  *)
(***************************************************************************)
SaveState(st, old_store, outcome) ==
    IF outcome = "saved" THEN st ELSE old_store

\* The evaluation saves at once when it changes the status.
AfterCheck(st) == [st EXCEPT !.circuit_breaker_status = CheckCircuitBreakers(st)]

StoreAfterCheck(st, old_store, outcome) ==
    IF AfterCheck(st).circuit_breaker_status # st.circuit_breaker_status
    THEN SaveState(AfterCheck(st), old_store, outcome)
    ELSE old_store

(***************************************************************************)
(* Records of the last call and of the calls made so far.                  *)
(***************************************************************************)
NoCall ==
    [op |-> "load", approved |-> FALSE, granted |-> 0, msg |-> "",
     raised |-> "", saved |-> FALSE]

\* The allocator has been constructed on a store that holds the ledger of a
\* fresh budget (on a store without a document the constructor raises, see
\* LoadState).
Init ==
    /\ state = GenesisState
    /\ store = GenesisState
    /\ result = NoCall
    /\ history = [ops |-> 0,
                  pnl_matched |-> 0,
                  tier_closed_pnl |-> [t \in TierNames |-> 0],
                  pnl_since_rebalance |-> [s \in StrategyNames |-> 0],
                  repeated_rebalance |-> FALSE,
                  audit |-> [s \in StrategyNames |-> <<>>]]

\* A call may start while the bound leaves room for it; an answer is drawn
\* for a write only when the write is attempted.
MayCall(sv1, sv2) ==
    /\ history.ops < MaxOps
    /\ (AfterCheck(state).circuit_breaker_status = state.circuit_breaker_status)
           => sv1 = "saved"

(***************************************************************************)
(* rebalance_allocations                                                   *)
(***************************************************************************)
UpdatePeak_Reversed(st) ==
    IF st.current_total_budget_usdt > st.peak_total_budget_usdt
    THEN [st EXCEPT !.current_total_budget_usdt = st.peak_total_budget_usdt]
    ELSE st

\* the peak follows the current budget, up or down
UpdatePeak_Always(st) ==
    [st EXCEPT !.peak_total_budget_usdt = st.current_total_budget_usdt]

\* "Update peak budget"
UpdatePeak(st) ==
    IF st.current_total_budget_usdt > st.peak_total_budget_usdt
    THEN [st EXCEPT !.peak_total_budget_usdt = st.current_total_budget_usdt]
    ELSE st

RebalanceAllocations(sv1, sv2) ==
    /\ MayCall(sv1, sv2)
    /\ LET rebalanced == UpdatePeak(InitializeAllocations(AfterCheck(state)))
       IN  /\ state' = rebalanced
           /\ store' = SaveState(rebalanced, StoreAfterCheck(state, store, sv1), sv2)
    /\ result' = [NoCall EXCEPT !.op = "rebalance", !.saved = (sv2 = "saved")]
    /\ history' = [history EXCEPT
                       !.ops = @ + 1,
                       !.pnl_since_rebalance = [s \in StrategyNames |-> 0],
                       !.repeated_rebalance = (result.op = "rebalance")]

(***************************************************************************)
(* request_capital_for_trade                                               *)
(***************************************************************************)
\* num_current_positions >= strat_cfg["max_concurrent_positions"]
AtPositionLimit_Off(num_current_positions, max_concurrent_positions) ==
    num_current_positions > max_concurrent_positions

AtPositionLimit(num_current_positions, max_concurrent_positions) ==
    num_current_positions >= max_concurrent_positions

RequiresCapital_Always(strat_cfg) == TRUE

\* strat_cfg.get("requires_capital", False)
RequiresCapital(strat_cfg) == strat_cfg.requires_capital

Rejected(call, msg) ==
    [call EXCEPT !.approved = FALSE, !.granted = 0, !.msg = msg]

\* A return before the final _save_state.
ReturnUnsaved(st, sv1, sv2, res) ==
    /\ sv2 = "saved"
    /\ state' = AfterCheck(st)
    /\ store' = StoreAfterCheck(st, store, sv1)
    /\ result' = res
    /\ history' = [history EXCEPT !.repeated_rebalance = FALSE]

RequestCapitalForTrade(strategy_name, requested_usdt, position_id, sv1, sv2) ==
    \* a request that opens no position is not counted by the bound
    /\ MayCall(sv1, sv2) \/ (history.ops = MaxOps /\ sv1 = "saved")
    /\ LET checked == AfterCheck(state)
           call    == [NoCall EXCEPT !.op = "request"]
       IN
       IF Tripped(checked.circuit_breaker_status) THEN
           ReturnUnsaved(state, sv1, sv2,
                         Rejected(call, checked.circuit_breaker_status))
       ELSE IF strategy_name \notin DOMAIN checked.strategies THEN
           ReturnUnsaved(state, sv1, sv2, Rejected(call, "strategy_not_found"))
       ELSE IF ~RequiresCapital(STRATEGY_CONFIG[strategy_name]) THEN
           ReturnUnsaved(state, sv1, sv2,
                         [call EXCEPT !.approved = TRUE, !.granted = 0,
                                      !.msg = "no_direct_capital"])
       ELSE IF AtPositionLimit(
                   Len(checked.active_positions_by_strategy[strategy_name]),
                   STRATEGY_CONFIG[strategy_name].max_concurrent_positions) THEN
           ReturnUnsaved(state, sv1, sv2,
                         Rejected(call, "max_concurrent_positions"))
       ELSE
           LET strat_state == checked.strategies[strategy_name]
               capital_to_allocate ==
                   Min3(requested_usdt,
                        STRATEGY_CONFIG[strategy_name].max_capital_per_trade_usdt,
                        strat_state.available_for_new_positions_usdt)
           IN
           IF capital_to_allocate <= DUST_THRESHOLD THEN
               ReturnUnsaved(state, sv1, sv2,
                             Rejected(call, "insufficient_capital"))
           ELSE
               LET approved_state ==
                       [checked EXCEPT
                          !.strategies[strategy_name].available_for_new_positions_usdt
                              = @ - capital_to_allocate,
                          !.strategies[strategy_name].capital_in_use_usdt
                              = @ + capital_to_allocate,
                          !.active_positions_by_strategy[strategy_name]
                              = Append(@, [id |-> position_id,
                                           capital_usdt |->
                                               Round2(capital_to_allocate, 1)])]
               IN
               /\ history.ops < MaxOps
               /\ state' = approved_state
               /\ store' = SaveState(approved_state,
                                     StoreAfterCheck(state, store, sv1), sv2)
               /\ result' = [call EXCEPT !.approved = TRUE,
                                         !.granted = Round2(capital_to_allocate, 1),
                                         !.msg = "approved",
                                         !.saved = (sv2 = "saved")]
               /\ history' =
                      [history EXCEPT
                         !.ops = @ + 1,
                         !.repeated_rebalance = FALSE,
                         !.audit[strategy_name] =
                             Append(@, [requested |-> requested_usdt,
                                        available |->
                                            strat_state.available_for_new_positions_usdt,
                                        in_use |-> strat_state.capital_in_use_usdt,
                                        budget |->
                                            checked.current_total_budget_usdt])]

(***************************************************************************)
(* report_trade_close                                                      *)
(***************************************************************************)
\* the index of the last position with the id
IndexOfPosition_Last(active_positions, position_id) ==
    IF \E i \in 1..Len(active_positions) : active_positions[i].id = position_id
    THEN CHOOSE i \in 1..Len(active_positions) :
            /\ active_positions[i].id = position_id
            /\ \A j \in (i + 1)..Len(active_positions) :
                   active_positions[j].id # position_id
    ELSE 0

\* Index of the first position with the id, 0 when there is none.
IndexOfPosition(active_positions, position_id) ==
    IF \E i \in 1..Len(active_positions) : active_positions[i].id = position_id
    THEN CHOOSE i \in 1..Len(active_positions) :
            /\ active_positions[i].id = position_id
            /\ \A j \in 1..(i - 1) : active_positions[j].id # position_id
    ELSE 0

\* list.pop(i)
Pop(seq, i) == SubSeq(seq, 1, i - 1) \o SubSeq(seq, i + 1, Len(seq))

\* "Update overall budget and P&L"
UpdateBudgetAndPnl_NoPnl(st, pnl_usdt) ==
    [st EXCEPT !.current_total_budget_usdt = @ + pnl_usdt]

\* a close that also raises the peak to the new budget
UpdateBudgetAndPnl_RaisesPeak(st, pnl_usdt) ==
    [st EXCEPT !.current_total_budget_usdt = @ + pnl_usdt,
               !.overall_pnl_usdt = @ + pnl_usdt,
               !.peak_total_budget_usdt =
                   IF st.current_total_budget_usdt + pnl_usdt > @
                   THEN st.current_total_budget_usdt + pnl_usdt ELSE @]

UpdateBudgetAndPnl(st, pnl_usdt) ==
    [st EXCEPT !.current_total_budget_usdt = @ + pnl_usdt,
               !.overall_pnl_usdt = @ + pnl_usdt]

\* Line 464 reads strat_cfg, a name bound neither in report_trade_close nor
\* at module level: evaluating it raises NameError.
Unbound == "NameError"

CloseTierLookup(strategy_name) == Unbound

ReportTradeClose(strategy_name, position_id, pnl_usdt, sv) ==
    /\ history.ops < MaxOps
    /\ LET call == [NoCall EXCEPT !.op = "close"]
       IN
       IF strategy_name \notin DOMAIN state.strategies THEN
           /\ sv = "saved"
           /\ state' = state
           /\ store' = store
           /\ result' = [call EXCEPT !.msg = "strategy_not_found"]
           /\ history' = [history EXCEPT !.repeated_rebalance = FALSE]
       ELSE
           LET active_positions == state.active_positions_by_strategy[strategy_name]
               i == IndexOfPosition(active_positions, position_id)
           IN
           IF i = 0 THEN
               /\ state' = state
               /\ store' = SaveState(state, store, sv)
               /\ result' = [call EXCEPT !.msg = "position_not_found",
                                         !.saved = (sv = "saved")]
               /\ history' = [history EXCEPT !.repeated_rebalance = FALSE]
           ELSE
               LET original_capital == active_positions[i].capital_usdt
                   capital_returned == original_capital + pnl_usdt
                   updated ==
                       UpdateBudgetAndPnl(
                           [state EXCEPT
                              !.active_positions_by_strategy[strategy_name]
                                  = Pop(@, i),
                              !.strategies[strategy_name].capital_in_use_usdt
                                  = Max0(@ - original_capital),
                              !.strategies[strategy_name].available_for_new_positions_usdt
                                  = @ + capital_returned,
                              !.strategies[strategy_name].current_pnl_usdt
                                  = @ + pnl_usdt],
                           pnl_usdt)
                   tier_name == CloseTierLookup(strategy_name)
                   closed ==
                       [history EXCEPT
                          !.ops = @ + 1,
                          !.pnl_matched = @ + pnl_usdt,
                          !.tier_closed_pnl[STRATEGY_CONFIG[strategy_name].risk_tier]
                              = @ + pnl_usdt,
                          !.pnl_since_rebalance[strategy_name] = @ + pnl_usdt,
                          !.repeated_rebalance = FALSE,
                          !.audit[strategy_name] = Pop(@, i)]
               IN
               IF tier_name = Unbound THEN
                   \* the exception leaves the handler: no tier update, no save
                   /\ sv = "saved"
                   /\ state' = updated
                   /\ store' = store
                   /\ result' = [call EXCEPT !.msg = "closed", !.raised = Unbound]
                   /\ history' = closed
               ELSE
                   LET with_tier ==
                           IF tier_name \in DOMAIN updated.risk_tiers
                           THEN [updated EXCEPT
                                    !.risk_tiers[tier_name].current_pnl_usdt
                                        = @ + pnl_usdt]
                           ELSE updated
                   IN
                   /\ state' = with_tier
                   /\ store' = SaveState(with_tier, store, sv)
                   /\ result' = [call EXCEPT !.msg = "closed",
                                             !.saved = (sv = "saved")]
                   /\ history' = closed

(***************************************************************************)
(* Specification                                                           *)
(***************************************************************************)
Rebalance == \E sv1, sv2 \in StoreAnswers : RebalanceAllocations(sv1, sv2)

Request ==
    \E r \in RequestInputs, sv1, sv2 \in StoreAnswers :
        RequestCapitalForTrade(r[1], r[2], r[3], sv1, sv2)

Close ==
    \E s \in ClosedStrategies, p \in PositionIds, pnl \in PnlAmounts,
       sv \in StoreAnswers :
        ReportTradeClose(s, p, pnl, sv)

Next == Rebalance \/ Request \/ Close

Spec == Init /\ [][Next]_vars

(***************************************************************************)
(* Properties                                                              *)
(***************************************************************************)
Positions(s) == state.active_positions_by_strategy[s]

\* C1: in every reachable state the current total budget equals the initial
\* budget plus the overall P&L.
C1_BudgetIsInitialPlusOverallPnl ==
    state.current_total_budget_usdt
        = state.initial_budget_usdt + state.overall_pnl_usdt

\* a rebalance has run after closes that realized a net P&L
C1_Witness ==
    /\ result.op = "rebalance"
    /\ state.overall_pnl_usdt # 0
    /\ state.initial_budget_usdt = TOTAL_INITIAL_BUDGET_USDT

\* C2 as stated: every report_trade_close call made adds its pnl_usdt to the
\* current total budget, and a rebalance or a request adds nothing, so that
\* the budget is the initial budget plus the pnl of every close call made.
C2_EveryCloseCallAddsItsPnl ==
    [][/\ \A s \in ClosedStrategies, p \in PositionIds, pnl \in PnlAmounts,
            sv \in StoreAnswers :
              ReportTradeClose(s, p, pnl, sv)
                  => state'.current_total_budget_usdt
                         = state.current_total_budget_usdt + pnl
       /\ result'.op \in {"rebalance", "request"}
              => state'.current_total_budget_usdt
                     = state.current_total_budget_usdt]_vars

\* C2 amended: the current total budget equals the initial budget plus the
\* sum of the pnl_usdt of the report_trade_close calls that matched an active
\* position, whatever rebalances are interleaved.
C2_BudgetIsInitialPlusMatchedPnl ==
    state.current_total_budget_usdt
        = state.initial_budget_usdt + history.pnl_matched

\* a close call that matched nothing, made after closes that realized P&L
C2_Witness ==
    /\ result.op = "close"
    /\ result.msg = "position_not_found"
    /\ history.pnl_matched # 0

\* C3: every strategy holds at most max_concurrent_positions active
\* positions.
C3_PositionLimit ==
    \A s \in StrategyNames :
        Len(Positions(s)) <= STRATEGY_CONFIG[s].max_concurrent_positions

\* a request was turned down at the limit, with a strategy of limit 2 full
C3_Witness ==
    /\ result.op = "request"
    /\ result.msg = "max_concurrent_positions"
    /\ Len(Positions("crypto_rsi_momentum_altcoins")) = 2

C5_TrippedStatusResets ==
    [][(/\ result'.op \in {"request", "rebalance"}
        /\ Tripped(state.circuit_breaker_status)
        /\ ~DrawdownFromInitialHit(state)
        /\ ~DrawdownFromPeakHit(state))
       => state'.circuit_breaker_status = "active"]_vars

\* C6: for a known capital-requiring strategy below its position limit, with
\* the breaker active, the grant is min(requested, max per trade, available),
\* and the request is rejected when that minimum is at most 0.01.
C6_GrantIsTheMinimum ==
    [][\A r \in RequestInputs, sv1, sv2 \in StoreAnswers :
          (/\ RequestCapitalForTrade(r[1], r[2], r[3], sv1, sv2)
           /\ r[1] \in StrategyNames
           /\ STRATEGY_CONFIG[r[1]].requires_capital
           /\ Len(Positions(r[1])) < STRATEGY_CONFIG[r[1]].max_concurrent_positions
           /\ ~Tripped(state'.circuit_breaker_status))
          => LET minimum ==
                     Min3(r[2], STRATEGY_CONFIG[r[1]].max_capital_per_trade_usdt,
                          state.strategies[r[1]].available_for_new_positions_usdt)
             IN  IF minimum <= 10
                 THEN ~result'.approved /\ result'.granted = 0
                 ELSE result'.approved /\ result'.granted = minimum]_vars

\* C7: every active position has a capital above 0.01, at most the
\* strategy's max per trade, at most the amount requested for it and at most
\* the strategy's available capital when it was approved.
C7_PositionCapitalBounds ==
    \A s \in StrategyNames :
        \A i \in 1..Len(Positions(s)) :
            /\ Positions(s)[i].capital_usdt > 10
            /\ Positions(s)[i].capital_usdt
                   <= STRATEGY_CONFIG[s].max_capital_per_trade_usdt
            /\ Positions(s)[i].capital_usdt <= history.audit[s][i].requested
            /\ Positions(s)[i].capital_usdt <= history.audit[s][i].available

\* C8: a close of a position found in the active list removes it and changes
\* the ledger by exactly: capital_in_use minus the capital, available plus
\* capital plus pnl, strategy P&L, total budget and overall P&L plus pnl.
C8_CloseReconciles ==
    [][\A s \in ClosedStrategies \cap StrategyNames, p \in PositionIds,
          pnl \in PnlAmounts, sv \in StoreAnswers :
          (/\ ReportTradeClose(s, p, pnl, sv)
           /\ IndexOfPosition(Positions(s), p) # 0)
          => LET i       == IndexOfPosition(Positions(s), p)
                 capital == Positions(s)[i].capital_usdt
                 before  == state.strategies[s]
                 after   == state'.strategies[s]
             IN  /\ state'.active_positions_by_strategy[s] = Pop(Positions(s), i)
                 /\ after.capital_in_use_usdt
                        = before.capital_in_use_usdt - capital
                 /\ after.available_for_new_positions_usdt
                        = before.available_for_new_positions_usdt + capital + pnl
                 /\ after.current_pnl_usdt = before.current_pnl_usdt + pnl
                 /\ state'.current_total_budget_usdt
                        = state.current_total_budget_usdt + pnl
                 /\ state'.overall_pnl_usdt = state.overall_pnl_usdt + pnl]_vars

\* C9: each tier's current P&L is the accumulated pnl of the positions closed
\* by the strategies configured for that tier.
C9_TierPnlAccumulates ==
    \A t \in TierNames :
        state.risk_tiers[t].current_pnl_usdt = history.tier_closed_pnl[t]

\* C10: a close of a matching position returns normally with the ledger
\* saved to the store.
C10_CloseReturnsSaved ==
    (result.op = "close" /\ result.msg = "closed")
        => /\ result.raised = ""
           /\ result.saved
           /\ store = state

\* C11: every strategy's capital_in_use_usdt is at least 0 in every reachable
\* state, whatever closes were reported (of a position never opened, of the
\* same position twice).
C11_CapitalInUseNonNegative ==
    \A s \in StrategyNames : state.strategies[s].capital_in_use_usdt >= 0

\* a position was closed whose capital exceeded the capital in use (the other
\* position of the strategy is still open and nothing is counted in use)
C11_Witness ==
    /\ result.op = "close"
    /\ result.msg = "closed"
    /\ Len(Positions("crypto_rsi_momentum_altcoins")) = 1
    /\ state.strategies["crypto_rsi_momentum_altcoins"].capital_in_use_usdt = 0

\* Sum of capital_usdt over a list of active positions.
RECURSIVE SumOfCapital(_)
SumOfCapital(positions) ==
    IF positions = <<>> THEN 0
    ELSE Head(positions).capital_usdt + SumOfCapital(Tail(positions))

\* C12: every strategy's capital_in_use_usdt equals the sum of capital_usdt
\* over its active positions, in every reachable state, in particular after
\* a rebalance that runs while positions are open.
C12_CapitalInUseIsSumOfPositions ==
    \A s \in StrategyNames :
        state.strategies[s].capital_in_use_usdt = SumOfCapital(Positions(s))

\* C13: for every capital-requiring strategy, available_for_new_positions_usdt
\* plus capital_in_use_usdt equals allocated_capital_usdt plus the sum of the
\* pnl of the strategy's positions closed since the last rebalance.
C13_AvailablePlusInUse ==
    \A s \in StrategyNames :
        STRATEGY_CONFIG[s].requires_capital
            => state.strategies[s].available_for_new_positions_usdt
                   + state.strategies[s].capital_in_use_usdt
               = state.strategies[s].allocated_capital_usdt
                   + history.pnl_since_rebalance[s]

\* C14: a rebalance that directly follows a rebalance, with no request or
\* close in between, leaves risk_tiers and strategies as the first one left
\* them, and no rebalance changes current_total_budget_usdt or
\* overall_pnl_usdt.
C14_RebalanceTwice ==
    [][\A sv1, sv2 \in StoreAnswers :
          (result'.op = "rebalance" /\ RebalanceAllocations(sv1, sv2))
          => /\ state'.current_total_budget_usdt = state.current_total_budget_usdt
             /\ state'.overall_pnl_usdt = state.overall_pnl_usdt
             /\ result.op = "rebalance"
                    => /\ state'.risk_tiers = state.risk_tiers
                       /\ state'.strategies = state.strategies]_vars

\* a second rebalance in a row has run on a budget changed by realized P&L
C14_Witness ==
    /\ result.op = "rebalance"
    /\ history.repeated_rebalance
    /\ state.overall_pnl_usdt # 0

\* C15: a rebalance leaves the current_pnl_usdt of every strategy and of
\* every tier as it was before the rebalance.
C15_RebalanceKeepsCurrentPnl ==
    [][\A sv1, sv2 \in StoreAnswers :
          RebalanceAllocations(sv1, sv2)
          => /\ \A s \in StrategyNames :
                    state'.strategies[s].current_pnl_usdt
                        = state.strategies[s].current_pnl_usdt
             /\ \A t \in TierNames :
                    state'.risk_tiers[t].current_pnl_usdt
                        = state.risk_tiers[t].current_pnl_usdt]_vars

\* C16: peak_total_budget_usdt never decreases, and right after every
\* rebalance it is the larger of its previous value and
\* current_total_budget_usdt.
C16_PeakMonotone ==
    [][/\ state'.peak_total_budget_usdt >= state.peak_total_budget_usdt
       /\ \A sv1, sv2 \in StoreAnswers :
              (result'.op = "rebalance" /\ RebalanceAllocations(sv1, sv2))
              => state'.peak_total_budget_usdt
                     = IF state'.current_total_budget_usdt
                              > state.peak_total_budget_usdt
                       THEN state'.current_total_budget_usdt
                       ELSE state.peak_total_budget_usdt]_vars

\* a rebalance has raised the peak above the initial budget
C16_Witness ==
    /\ result.op = "rebalance"
    /\ state.peak_total_budget_usdt > state.initial_budget_usdt
    /\ state.peak_total_budget_usdt = state.current_total_budget_usdt

\* The capital-requiring strategies configured for a tier, and their shares.
CapitalStrategiesOf(t) ==
    {s \in StrategyNames :
        STRATEGY_CONFIG[s].risk_tier = t /\ STRATEGY_CONFIG[s].requires_capital}

ShareSumOf(t) ==
    SumOver([s \in CapitalStrategiesOf(t) |->
                 STRATEGY_CONFIG[s].tier_share_percentage],
            CapitalStrategiesOf(t))

\* C17 as stated: after a rebalance, in each tier whose capital-requiring
\* strategies have share sum D > 0, every capital-requiring strategy has
\* allocated = available = tier capital * (share / D) exactly.
C17_ExactProportionalShare ==
    result.op = "rebalance"
        => \A t \in TierNames : \A s \in CapitalStrategiesOf(t) :
               ShareSumOf(t) > 0
                   => /\ state.strategies[s].available_for_new_positions_usdt
                          = state.strategies[s].allocated_capital_usdt
                      /\ state.strategies[s].allocated_capital_usdt * ShareSumOf(t)
                          = state.risk_tiers[t].available_capital_usdt
                                * STRATEGY_CONFIG[s].tier_share_percentage

\* C17 amended: after a rebalance, in each such tier every capital-requiring
\* strategy has allocated = available = tier capital * (share / D) rounded to
\* the nearest cent (a whole number of cents at most half a cent away), D
\* summed over the capital-requiring strategies only; a budget of 40.00 gives
\* 7.20 and 4.80 to the two strategies of the 30% tier.
C17_ProportionalShareToTheCent ==
    result.op = "rebalance"
        => /\ \A t \in TierNames : \A s \in CapitalStrategiesOf(t) :
                  ShareSumOf(t) > 0
                      => LET allocated == state.strategies[s].allocated_capital_usdt
                             exact_num == state.risk_tiers[t].available_capital_usdt
                                              * STRATEGY_CONFIG[s].tier_share_percentage
                             diff      == allocated * ShareSumOf(t) - exact_num
                         IN  /\ state.strategies[s].available_for_new_positions_usdt
                                    = allocated
                             /\ allocated % 10 = 0
                             /\ 2 * diff <= 10 * ShareSumOf(t)
                             /\ 2 * diff >= -10 * ShareSumOf(t)
           /\ state.current_total_budget_usdt = 40000
                  => /\ state.risk_tiers["conservative"].available_capital_usdt = 12000
                     /\ state.strategies["pionex_btc_eth_grid"].allocated_capital_usdt
                            = 7200
                     /\ state.strategies["defi_stablecoin_yield"].allocated_capital_usdt
                            = 4800

\* a rebalance on a budget of 38.40 has given the 70% strategy of the 11.52
\* tier 8.06, where the exact share is 8.064
C17_Witness ==
    /\ result.op = "rebalance"
    /\ state.risk_tiers["aggressive"].available_capital_usdt = 11520
    /\ state.strategies["memecoin_early_detection_trade"].allocated_capital_usdt
           = 8060

\* a request for a strategy that is configured and requires no capital
NoCapitalRequest ==
    \E r \in RequestInputs, sv1, sv2 \in StoreAnswers :
        /\ r[1] \in StrategyNames
        /\ ~STRATEGY_CONFIG[r[1]].requires_capital
        /\ RequestCapitalForTrade(r[1], r[2], r[3], sv1, sv2)

\* approved with 0, no position opened, no capital field changed
AutoApproved ==
    /\ result'.approved
    /\ result'.granted = 0
    /\ result'.raised = ""
    /\ state'.active_positions_by_strategy = state.active_positions_by_strategy
    /\ state'.strategies = state.strategies
    /\ state'.risk_tiers = state.risk_tiers
    /\ state'.current_total_budget_usdt = state.current_total_budget_usdt
    /\ state'.peak_total_budget_usdt = state.peak_total_budget_usdt
    /\ state'.overall_pnl_usdt = state.overall_pnl_usdt

\* C24 (as claimed): every request_capital_for_trade for a strategy whose
\* requires_capital is false is approved with 0, opens no position and changes
\* no capital field.
C24_NoCapitalAutoApproved ==
    [][(result'.op = "request" /\ NoCapitalRequest) => AutoApproved]_vars

\* C24: a request_capital_for_trade for a strategy whose requires_capital is
\* false, made while the breaker evaluation leaves the breaker untripped, is
\* approved with 0, opens no position and changes no capital field.
C24_NoCapitalAutoApprovedUnlessTripped ==
    [][(/\ result'.op = "request"
        /\ ~Tripped(CheckCircuitBreakers(state))
        /\ NoCapitalRequest)
       => AutoApproved]_vars

\* the no-capital strategy was acknowledged while a position of another
\* strategy is open
C24_Witness ==
    /\ result.op = "request"
    /\ result.msg = "no_direct_capital"
    /\ result.approved
    /\ result.granted = 0
    /\ Len(state.active_positions_by_strategy["pionex_btc_eth_grid"]) = 1
    /\ state.active_positions_by_strategy["github_arbitrage_automation"] = <<>>

\* C28: an operation that changes the ledger has evaluated the breaker on
\* the ledger it found: the status it leaves is the one the evaluation gives
\* for the budget before the change.
C28_MutationsReevaluateBreaker ==
    [][state' # state
          => state'.circuit_breaker_status = CheckCircuitBreakers(state)]_vars

C30_ApprovedRequestFrame ==
    [][(result'.op = "request" /\ result'.approved /\ result'.granted > 0)
       => \E s \in StrategyNames :
              /\ state'.strategies =
                     [state.strategies EXCEPT
                        ![s].available_for_new_positions_usdt
                            = @ - result'.granted,
                        ![s].capital_in_use_usdt = @ + result'.granted]
              /\ Len(state'.active_positions_by_strategy[s])
                     = Len(Positions(s)) + 1
              /\ state'.active_positions_by_strategy =
                     [state.active_positions_by_strategy EXCEPT
                        ![s] = Append(@, state'.active_positions_by_strategy[s][
                                             Len(Positions(s)) + 1])]
              /\ state'.active_positions_by_strategy[s][
                     Len(Positions(s)) + 1].capital_usdt = result'.granted
              /\ state'.risk_tiers = state.risk_tiers
              /\ state'.current_total_budget_usdt
                     = state.current_total_budget_usdt
              /\ state'.overall_pnl_usdt = state.overall_pnl_usdt
              /\ state'.peak_total_budget_usdt
                     = state.peak_total_budget_usdt]_vars

\* C31: a rebalance, with the breaker tripped or not, leaves the tiers and
\* strategies computed anew from the current budget, and leaves the lists of
\* active positions and the initial budget as they were.
C31_RebalanceFrame ==
    [][result'.op = "rebalance"
          => /\ state'.active_positions_by_strategy
                    = state.active_positions_by_strategy
             /\ state'.initial_budget_usdt = state.initial_budget_usdt
             /\ state'.risk_tiers = InitTiers(state.current_total_budget_usdt)
             /\ state'.strategies = InitStrategies(state'.risk_tiers)]_vars

\* a rebalance ran with the breaker tripped and a position open: the list
\* still holds the position, the strategy's capital in use was recomputed to 0
C31_Witness ==
    /\ result.op = "rebalance"
    /\ Tripped(state.circuit_breaker_status)
    /\ Len(Positions("crypto_rsi_momentum_altcoins")) = 1
    /\ state.strategies["crypto_rsi_momentum_altcoins"].capital_in_use_usdt = 0
    /\ state.risk_tiers["moderate"].total_capital_usdt = 11200

\* C32: for every capital-requiring strategy the capital of its active
\* positions adds up to at most its allocated_capital_usdt, in every
\* reachable state.
C32_PositionsWithinAllocation ==
    \A s \in StrategyNames :
        STRATEGY_CONFIG[s].requires_capital
            => SumOfCapital(Positions(s))
                   <= state.strategies[s].allocated_capital_usdt

\* C33: no strategy's available_for_new_positions_usdt is negative, in any
\* reachable state.
C33_AvailableNonNegative ==
    \A s \in StrategyNames :
        state.strategies[s].available_for_new_positions_usdt >= 0

\* C34: a close with pnl 0 of the position a strategy opened last, with
\* nothing done to the strategy or the budget since that open, puts the
\* strategy's available_for_new_positions_usdt and capital_in_use_usdt and the
\* total budget back to their values before the open.
C34_OpenCloseRoundTrip ==
    [][\A s \in StrategyNames :
          (/\ result'.op = "close"
           /\ result'.msg = "closed"
           /\ Positions(s) # <<>>
           /\ state'.active_positions_by_strategy[s]
                  = SubSeq(Positions(s), 1, Len(Positions(s)) - 1)
           /\ state'.current_total_budget_usdt = state.current_total_budget_usdt
           /\ LET opened == history.audit[s][Len(Positions(s))]
                  capital == Min3(opened.requested,
                                  STRATEGY_CONFIG[s].max_capital_per_trade_usdt,
                                  opened.available)
              IN  /\ state.strategies[s].available_for_new_positions_usdt
                         = opened.available - capital
                  /\ state.strategies[s].capital_in_use_usdt
                         = opened.in_use + capital
                  /\ state.current_total_budget_usdt = opened.budget)
          => LET opened == history.audit[s][Len(Positions(s))]
             IN  /\ state'.strategies[s].available_for_new_positions_usdt
                        = opened.available
                 /\ state'.strategies[s].capital_in_use_usdt = opened.in_use
                 /\ state'.current_total_budget_usdt = opened.budget]_vars

\* the indexes of the positions of a strategy that carry the id
IndexesOfId(s, p) == {j \in 1..Len(Positions(s)) : Positions(s)[j].id = p}

\* a sequence without its k-th element
WithoutElement(seq, k) ==
    [j \in 1..(Len(seq) - 1) |-> IF j < k THEN seq[j] ELSE seq[j + 1]]

\* C35: an approved request whose position id is already active for the
\* strategy appends a second record with that id; a close of an id that two
\* active positions carry removes the one opened first (the records of the
\* opens in history.audit tell the two apart) and leaves the other active.
C35_DuplicateIds ==
    [][/\ \A r \in RequestInputs :
             (/\ result'.op = "request"
              /\ result'.approved
              /\ result'.granted > 0
              /\ r[1] \in StrategyNames
              /\ IndexesOfId(r[1], r[3]) # {}
              /\ \E sv1, sv2 \in StoreAnswers :
                     RequestCapitalForTrade(r[1], r[2], r[3], sv1, sv2))
             => state'.active_positions_by_strategy[r[1]]
                    = Append(Positions(r[1]),
                             [id |-> r[3], capital_usdt |-> result'.granted])
       /\ \A s \in ClosedStrategies \cap StrategyNames, p \in PositionIds :
             (/\ result'.op = "close"
              /\ result'.msg = "closed"
              /\ Cardinality(IndexesOfId(s, p)) >= 2
              /\ \E pnl \in PnlAmounts, sv \in StoreAnswers :
                     ReportTradeClose(s, p, pnl, sv))
             => LET first == CHOOSE i \in IndexesOfId(s, p) :
                                 \A j \in IndexesOfId(s, p) : i <= j
                IN  /\ state'.active_positions_by_strategy[s]
                           = WithoutElement(Positions(s), first)
                    /\ history'.audit[s] = WithoutElement(history.audit[s], first)
                    /\ \E j \in 1..Len(state'.active_positions_by_strategy[s]) :
                           state'.active_positions_by_strategy[s][j].id = p]_vars

\* 'p1' was opened twice for one strategy and closed once: the position left
\* is the one opened second, when 2.556 had already been taken from the 16.00
C35_Witness ==
    /\ result.op = "close"
    /\ result.msg = "closed"
    /\ Len(Positions("crypto_rsi_momentum_altcoins")) = 1
    /\ Positions("crypto_rsi_momentum_altcoins")[1].id = "p1"
    /\ history.audit["crypto_rsi_momentum_altcoins"][1].available = 13444

\* C36: the peak changes only in a rebalance that finds the budget above the
\* initial budget, and while the peak equals the initial budget the status is
\* never the drawdown-from-peak one.
C36_PeakTripNeedsProfitableRebalance ==
    [][/\ state'.peak_total_budget_usdt # state.peak_total_budget_usdt
          => /\ result'.op = "rebalance"
             /\ state.current_total_budget_usdt > state.initial_budget_usdt
       /\ state'.peak_total_budget_usdt = state'.initial_budget_usdt
          => state'.circuit_breaker_status # "total_drawdown_peak_tripped"]_vars

\* a request met the drawdown-from-peak breaker: a rebalance at 52.00 had
\* raised the peak, and a loss took the budget back to the initial 40.00
C36_Witness ==
    /\ result.op = "request"
    /\ result.msg = "total_drawdown_peak_tripped"
    /\ state.circuit_breaker_status = "total_drawdown_peak_tripped"
    /\ state.peak_total_budget_usdt = 52000
    /\ state.current_total_budget_usdt = state.initial_budget_usdt

(***************************************************************************)
(* Persistence: the ledger document and its version token                  *)
(***************************************************************************)
MAX_RETRIES == 3

\* keys of the dictionary built by _default_state
LedgerKeys ==
    {"last_updated_utc", "initial_budget_usdt", "current_total_budget_usdt",
     "peak_total_budget_usdt", "overall_pnl_usdt", "risk_tiers", "strategies",
     "active_positions_by_strategy", "circuit_breaker_status", "log"}

\* dict.pop(key, None): the dictionary without the key
PopKey(dict, key) == [k \in DOMAIN dict \ {key} |-> dict[k]]

\* dict[key] = value, whether or not the key is present
SetKey(dict, key, value) == (key :> value) @@ dict

\* _default_state at time now
DefaultTemplate(initial_budget, now) ==
    DefaultState(initial_budget)
        @@ [last_updated_utc |-> now, log |-> <<"Initialized with budget">>]

\* json.dumps: one "key": value member per key of the dictionary
Dumps(dict) == {<<k, dict[k]>> : k \in DOMAIN dict}

\* json.loads of a text that parses: the dictionary of its members
Loads(content) ==
    [k \in {member[1] : member \in content} |->
        (CHOOSE member \in content : member[1] = k)[2]]

\* what the store holds at the path of the ledger, and its sha (0: none)
AbsentFile == [kind |-> "absent", content |-> {}, sha |-> 0]

\* get_file_content_and_sha: (content, sha), (None, None) without a file
GetFileContentAndSha(file) ==
    IF file.kind = "absent"
    THEN [content_str |-> "None", content |-> {}, sha |-> 0]
    ELSE [content_str |-> file.kind, content |-> file.content, sha |-> file.sha]

\* _initialize_allocations calls self._log_event, which reads self.state; in
\* _load_state the constructor has not assigned self.state yet.
GenesisLogTarget == "AttributeError"

\* a load that recomputes the allocations of the ledger it has read
LoadState_Reinitializes(file, initial_budget, now) ==
    LET got == GetFileContentAndSha(file)
    IN  IF got.content_str = "json"
        THEN [constructed |-> TRUE,
              dict |-> SetKey(InitializeAllocations(
                                  Loads(got.content)
                                      @@ DefaultTemplate(initial_budget, now)),
                              "_file_sha", got.sha),
              raised |-> ""]
        ELSE [constructed |-> FALSE, dict |-> <<>>, raised |-> GenesisLogTarget]

\* _load_state: the dictionary the constructor assigns to self.state, or the
\* exception that leaves the constructor
LoadState(file, initial_budget, now) ==
    LET got == GetFileContentAndSha(file)
    IN  IF got.content_str = "json"
        THEN LET loaded == Loads(got.content)
                 filled == loaded @@ DefaultTemplate(initial_budget, now)
             IN  [constructed |-> TRUE,
                  dict |-> SetKey(filled, "_file_sha", got.sha),
                  raised |-> ""]
        ELSE IF GenesisLogTarget = "AttributeError"
        THEN [constructed |-> FALSE, dict |-> <<>>, raised |-> GenesisLogTarget]
        ELSE [constructed |-> TRUE,
              dict |-> SetKey(InitializeAllocations(
                                  DefaultTemplate(initial_budget, now)),
                              "_file_sha", 0),
              raised |-> ""]

\* what the store answers to one attempt of a request: a response, 403 rate
\* limit exceeded, 422 "No commit found for SHA", any other failure
AttemptAnswers == {"ok", "rate_limited", "sha_mismatch", "error"}

\* Line 151 formats file_path, a name bound neither in _request nor at
\* module level: evaluating it raises NameError.
MismatchLogPath == Unbound

\* _request looping until the store gives an answer that ends the request
RECURSIVE GhRequest_UntilAnswered(_, _, _, _)
GhRequest_UntilAnswered(method, data_has_sha, answers, attempt) ==
    IF attempt >= Len(answers)
    THEN [kind |-> "None", attempts |-> attempt]
    ELSE LET answer == answers[attempt + 1]
         IN  IF answer = "ok"
             THEN [kind |-> "response", attempts |-> attempt + 1]
             ELSE IF answer = "rate_limited"
             THEN GhRequest_UntilAnswered(method, data_has_sha, answers,
                                          attempt + 1)
             ELSE IF answer = "sha_mismatch" /\ data_has_sha
             THEN IF MismatchLogPath = Unbound
                  THEN [kind |-> "NameError", attempts |-> attempt + 1]
                  ELSE [kind |-> "sha_mismatch", attempts |-> attempt + 1]
             ELSE IF attempt = Len(answers) - 1
             THEN [kind |-> "HTTPError", attempts |-> attempt + 1]
             ELSE GhRequest_UntilAnswered(method, data_has_sha, answers,
                                          attempt + 1)

\* _request: the loop over range(max_retries), from attempt (0-based) on;
\* answers[i] is what the store answers to the i-th attempt
RECURSIVE GhRequest(_, _, _, _)
GhRequest(method, data_has_sha, answers, attempt) ==
    IF attempt >= MAX_RETRIES
    THEN [kind |-> "None", attempts |-> attempt]
    ELSE LET answer == answers[attempt + 1]
         IN  IF answer = "ok"
             THEN [kind |-> "response", attempts |-> attempt + 1]
             ELSE IF answer = "rate_limited"
             THEN GhRequest(method, data_has_sha, answers, attempt + 1)
             ELSE IF answer = "sha_mismatch" /\ data_has_sha
             THEN IF MismatchLogPath = Unbound
                  THEN [kind |-> "NameError", attempts |-> attempt + 1]
                  ELSE [kind |-> "sha_mismatch", attempts |-> attempt + 1]
             ELSE IF attempt = MAX_RETRIES - 1
             THEN [kind |-> "HTTPError", attempts |-> attempt + 1]
             ELSE GhRequest(method, data_has_sha, answers, attempt + 1)

\* the first PUT of a save reached a "No commit found for SHA" answer
MetMismatch(data_has_sha, answers1) ==
    GhRequest("PUT", data_has_sha, answers1, 0).kind
        \in {"NameError", "sha_mismatch"}

\* the file after a PUT that the store accepted: a new sha
WrittenFile(file, content) ==
    [kind |-> "json", content |-> content, sha |-> file.sha + 1]

\* create_or_update_file: first PUT, and on a "sha_mismatch" response the
\* re-fetch of the sha and one more PUT
CreateOrUpdateFile(file, content, current_sha, answers1, answers2) ==
    LET first == GhRequest("PUT", current_sha # 0, answers1, 0)
        new_sha == GetFileContentAndSha(file).sha
        second == GhRequest("PUT", new_sha # 0, answers2, 0)
        retried == first.kind = "sha_mismatch"
        response == IF retried THEN second ELSE first
    IN  [success |-> response.kind = "response",
         raised |-> IF response.kind \in {"NameError", "HTTPError"}
                    THEN response.kind ELSE "",
         file |-> IF response.kind = "response"
                  THEN WrittenFile(file, content) ELSE file,
         puts |-> first.attempts + (IF retried THEN second.attempts ELSE 0),
         requests |-> IF retried THEN 2 ELSE 1,
         refetches |-> IF retried THEN 1 ELSE 0]

\* json.dumps(self.state) with the sha left in the dictionary
DocumentOf_WithSha(dict) == Dumps(dict)

\* _save_state writes the dictionary without its "_file_sha"
DocumentOf(dict) == Dumps(PopKey(dict, "_file_sha"))

\* _save_state: the dictionary, the file and the value returned (or the
\* exception raised) after the call
SaveStateDict(dict, file, now, answers1, answers2) ==
    LET stamped == SetKey(dict, "last_updated_utc", now)
        current_sha == IF "_file_sha" \in DOMAIN stamped
                       THEN stamped["_file_sha"] ELSE 0
        popped == PopKey(stamped, "_file_sha")
        done == CreateOrUpdateFile(file, DocumentOf(stamped), current_sha,
                                   answers1, answers2)
    IN  [dict |-> IF done.raised # "" THEN popped
                  ELSE IF done.success
                  THEN SetKey(popped, "_file_sha",
                              GetFileContentAndSha(done.file).sha)
                  ELSE SetKey(popped, "_file_sha", current_sha),
         file |-> done.file,
         success |-> done.success,
         raised |-> done.raised,
         puts |-> done.puts,
         requests |-> done.requests,
         refetches |-> done.refetches]

\* get_full_state_for_ui: a copy through JSON without "_file_sha"
GetFullStateForUi(dict) == PopKey(Loads(Dumps(dict)), "_file_sha")

\* _log_event keeping the first 100 entries
LogEvent_KeepsOldest(dict, message) ==
    LET log == Append(dict["log"], message)
    IN  [dict EXCEPT !["log"] =
            IF Len(log) > 100 THEN SubSeq(log, 1, 100) ELSE log]

\* _log_event: append, keep the last 100 entries
LogEvent(dict, message) ==
    LET log == Append(dict["log"], message)
    IN  [dict EXCEPT !["log"] =
            IF Len(log) > 100 THEN SubSeq(log, Len(log) - 99, Len(log)) ELSE log]

\* request_capital_for_trade after the breaker evaluation, on the dictionary:
\* what is returned, the dictionary then, and whether _save_state is called
RequestDecision(dict, strategy_name, requested_usdt, position_id) ==
    LET reject(msg) == [approved |-> FALSE, granted |-> 0, msg |-> msg,
                        dict |-> LogEvent(dict, msg), saves |-> FALSE]
    IN
    IF Tripped(dict.circuit_breaker_status) THEN
        reject(dict.circuit_breaker_status)
    ELSE IF strategy_name \notin DOMAIN dict.strategies THEN
        [approved |-> FALSE, granted |-> 0, msg |-> "strategy_not_found",
         dict |-> dict, saves |-> FALSE]
    ELSE IF ~RequiresCapital(STRATEGY_CONFIG[strategy_name]) THEN
        [approved |-> TRUE, granted |-> 0, msg |-> "no_direct_capital",
         dict |-> dict, saves |-> FALSE]
    ELSE IF AtPositionLimit(
                Len(dict.active_positions_by_strategy[strategy_name]),
                STRATEGY_CONFIG[strategy_name].max_concurrent_positions) THEN
        reject("max_concurrent_positions")
    ELSE
        LET capital_to_allocate ==
                Min3(requested_usdt,
                     STRATEGY_CONFIG[strategy_name].max_capital_per_trade_usdt,
                     dict.strategies[strategy_name].available_for_new_positions_usdt)
        IN  IF capital_to_allocate <= DUST_THRESHOLD THEN
                reject("insufficient_capital")
            ELSE
                [approved |-> TRUE,
                 granted |-> Round2(capital_to_allocate, 1),
                 msg |-> "approved",
                 dict |-> LogEvent(
                     [dict EXCEPT
                        !.strategies[strategy_name].available_for_new_positions_usdt
                            = @ - capital_to_allocate,
                        !.strategies[strategy_name].capital_in_use_usdt
                            = @ + capital_to_allocate,
                        !.active_positions_by_strategy[strategy_name]
                            = Append(@, [id |-> position_id,
                                         capital_usdt |->
                                             Round2(capital_to_allocate, 1)])],
                     "approved"),
                 saves |-> TRUE]

\* report_trade_close on the dictionary: the dictionary then, the exception
\* that leaves the handler, and whether _save_state is reached
CloseDecision(dict, strategy_name, position_id, pnl_usdt) ==
    IF strategy_name \notin DOMAIN dict.strategies THEN
        [dict |-> dict, raised |-> "", saves |-> FALSE,
         msg |-> "strategy_not_found"]
    ELSE
        LET active_positions == dict.active_positions_by_strategy[strategy_name]
            i == IndexOfPosition(active_positions, position_id)
        IN  IF i = 0 THEN
                [dict |-> LogEvent(dict, "position_not_found"), raised |-> "",
                 saves |-> TRUE, msg |-> "position_not_found"]
            ELSE
                LET original_capital == active_positions[i].capital_usdt
                    updated ==
                        UpdateBudgetAndPnl(
                            [dict EXCEPT
                               !.active_positions_by_strategy[strategy_name]
                                   = Pop(@, i),
                               !.strategies[strategy_name].capital_in_use_usdt
                                   = Max0(@ - original_capital),
                               !.strategies[strategy_name].available_for_new_positions_usdt
                                   = @ + original_capital + pnl_usdt,
                               !.strategies[strategy_name].current_pnl_usdt
                                   = @ + pnl_usdt],
                            pnl_usdt)
                    tier_name == CloseTierLookup(strategy_name)
                IN  IF tier_name = Unbound THEN
                        [dict |-> updated, raised |-> Unbound, saves |-> FALSE,
                         msg |-> "closed"]
                    ELSE
                        [dict |-> LogEvent(
                                      IF tier_name \in DOMAIN updated.risk_tiers
                                      THEN [updated EXCEPT
                                              !.risk_tiers[tier_name].current_pnl_usdt
                                                  = @ + pnl_usdt]
                                      ELSE updated,
                                      "closed"),
                         raised |-> "", saves |-> TRUE, msg |-> "closed"]

(***************************************************************************)
(* StoreSpec: allocator processes and other writers on one ledger file     *)
(***************************************************************************)
\* ledgers found in the store at the start or written there by others
LedgerGenesis ==
    InitializeAllocations(DefaultTemplate(TOTAL_INITIAL_BUDGET_USDT, 0))

LedgerTraded ==
    [UpdateBudgetAndPnl(LedgerGenesis, -1600) EXCEPT
        !.strategies["pionex_btc_eth_grid"].current_pnl_usdt = -1600,
        !.strategies["pionex_btc_eth_grid"].available_for_new_positions_usdt
            = @ - 1600,
        !.log = Append(@, "Trade closed")]

\* the ledger saved by the close of an unknown position after the close of
\* a position at a loss of 12.00 changed the budget and raised before its save
LedgerDrawnDown ==
    [UpdateBudgetAndPnl(LedgerGenesis, -12000) EXCEPT
        !.strategies["pionex_btc_eth_grid"].current_pnl_usdt = -12000,
        !.strategies["pionex_btc_eth_grid"].available_for_new_positions_usdt
            = @ - 12000,
        !.log = Append(@, "Position not found")]

\* a document of an older schema, without "log", with a stray "_file_sha"
LedgerOldSchema == SetKey(PopKey(LedgerTraded, "log"), "_file_sha", 7)

InitialFiles ==
    {AbsentFile,
     [kind |-> "unparsable", content |-> {}, sha |-> 1],
     [kind |-> "json", content |-> Dumps(LedgerGenesis), sha |-> 1],
     [kind |-> "json", content |-> Dumps(LedgerTraded), sha |-> 1],
     [kind |-> "json", content |-> Dumps(LedgerDrawnDown), sha |-> 1],
     [kind |-> "json", content |-> Dumps(LedgerOldSchema), sha |-> 1]}

\* a document with exactly the keys of the ledger
WellFormed(file) ==
    /\ file.kind = "json"
    /\ {member[1] : member \in file.content} = LedgerKeys

\* the attempts of one PUT: the store accepts a write only with the sha of
\* the file it holds, and reports a sha mismatch only for another sha
PutAnswers(file, sha) ==
    [1..MAX_RETRIES ->
        IF sha = file.sha THEN AttemptAnswers \ {"sha_mismatch"}
        ELSE IF sha = 0 THEN AttemptAnswers \ {"ok", "sha_mismatch"}
        ELSE AttemptAnswers \ {"ok"}]

\* answers are drawn for the second PUT only when it is made
RetryAnswers(file, sha, answers1) ==
    IF GhRequest("PUT", sha # 0, answers1, 0).kind = "sha_mismatch"
    THEN PutAnswers(file, file.sha)
    ELSE {[i \in 1..MAX_RETRIES |-> "ok"]}

NoStoreCall ==
    [op |-> "none", returned |-> FALSE, raised |-> "", puts |-> 0,
     requests |-> 0, refetches |-> 0, snapshot |-> <<>>,
     after_load |-> FALSE, mismatch |-> FALSE,
     approved |-> FALSE, granted |-> 0, msg |-> "", saved |-> "not_called",
     stale |-> FALSE]

\* request_capital_for_trade(strategy_name, requested_usdt, position_id) of
\* the allocator, and of another allocator process
StoreRequestInputs ==
    {<<"pionex_btc_eth_grid", 10000, "p1">>,
     <<"github_arbitrage_automation", 10000, "p1">>}

\* report_trade_close(strategy_name, position_id, pnl_usdt) of the allocator
StoreCloseInputs ==
    {<<"pionex_btc_eth_grid", "p1", -12000>>,
     <<"no_such_strategy", "p1", 0>>}

OtherRequestInputs == {<<"crypto_rsi_momentum_altcoins", 2556, "q1">>}

AllOk == [i \in 1..MAX_RETRIES |-> "ok"]

HeldSha(dict) == IF "_file_sha" \in DOMAIN dict THEN dict["_file_sha"] ELSE 0

\* the tiers whose loss has reached their max_loss_threshold_usdt
BreachedTiers(dict) ==
    {t \in DOMAIN dict.risk_tiers :
        /\ dict.risk_tiers[t].current_pnl_usdt < 0
        /\ -dict.risk_tiers[t].current_pnl_usdt
               >= dict.risk_tiers[t].max_loss_threshold_usdt}

RECURSIVE LogEvents(_, _, _)
LogEvents(dict, message, n) ==
    IF n = 0 THEN dict ELSE LogEvents(LogEvent(dict, message), message, n - 1)

\* _check_circuit_breakers on the dictionary: a status that changes is
\* logged and saved at once; otherwise each breached tier logs a warning
CheckBreakersDict(dict, file, now, answers1, answers2) ==
    LET status == CheckCircuitBreakers(dict)
    IN  IF status # dict.circuit_breaker_status
        THEN LET saved == SaveStateDict(
                              LogEvent([dict EXCEPT !.circuit_breaker_status = status],
                                       status),
                              file, now, answers1, answers2)
             IN  [dict |-> saved.dict, file |-> saved.file, raised |-> saved.raised]
        ELSE [dict |-> IF DrawdownFromInitialHit(dict) \/ DrawdownFromPeakHit(dict)
                       THEN dict
                       ELSE LogEvents(dict, "tier_max_loss",
                                      Cardinality(BreachedTiers(dict))),
              file |-> file, raised |-> ""]

\* answers are drawn for the save of the breaker only when it is made
CheckAnswers(dict, file) ==
    IF CheckCircuitBreakers(dict) # dict.circuit_breaker_status
    THEN PutAnswers(file, HeldSha(dict))
    ELSE {AllOk}

\* the number of calls and writes of one behaviour on the store
MaxStoreOps == 3

StoreInit ==
    /\ store \in InitialFiles
    /\ state = [constructed |-> FALSE, dict |-> <<>>]
    /\ result = NoStoreCall
    /\ history = [ops |-> 0, clock |-> 1, other_loaded |-> 0]

Tick == [history EXCEPT !.ops = @ + 1, !.clock = @ + 1]

\* BudgetAllocator.__init__ of a new run of the script
Construct ==
    /\ history.ops < MaxStoreOps
    /\ LET loaded == LoadState(store, TOTAL_INITIAL_BUDGET_USDT, history.clock)
       IN  /\ state' = [constructed |-> loaded.constructed, dict |-> loaded.dict]
           /\ result' = [NoStoreCall EXCEPT !.op = "load",
                                            !.raised = loaded.raised]
    /\ store' = store
    /\ history' = Tick

\* _save_state
SaveStateCall ==
    /\ history.ops < MaxStoreOps
    /\ state.constructed
    /\ LET held == IF "_file_sha" \in DOMAIN state.dict
                   THEN state.dict["_file_sha"] ELSE 0
       IN  \E answers1 \in PutAnswers(store, held) :
           \E answers2 \in RetryAnswers(store, held, answers1) :
               LET saved == SaveStateDict(state.dict, store, history.clock,
                                          answers1, answers2)
               IN  /\ state' = [state EXCEPT !.dict = saved.dict]
                   /\ store' = saved.file
                   /\ result' = [NoStoreCall EXCEPT
                                    !.op = "save",
                                    !.returned = saved.success,
                                    !.raised = saved.raised,
                                    !.puts = saved.puts,
                                    !.requests = saved.requests,
                                    !.refetches = saved.refetches,
                                    !.after_load =
                                        (result.op = "load" /\ WellFormed(store)),
                                    !.mismatch =
                                        MetMismatch(held # 0, answers1)]
    /\ history' = Tick

\* answers are drawn for the final save only when it is made
GrantAnswers(saves, dict, file) ==
    IF saves THEN PutAnswers(file, HeldSha(dict)) ELSE {AllOk}

\* request_capital_for_trade after the _save_state of a grant, whose return
\* value is dropped: an exception of the save leaves the handler
RequestSaved(decision, file, answers1, saved) ==
    /\ state' = [state EXCEPT !.dict = saved.dict]
    /\ store' = saved.file
    /\ result' = [NoStoreCall EXCEPT
                     !.op = "request",
                     !.raised = saved.raised,
                     !.approved = (saved.raised = ""),
                     !.granted = IF saved.raised = "" THEN decision.granted ELSE 0,
                     !.msg = IF saved.raised = "" THEN decision.msg ELSE "",
                     !.saved = IF saved.raised # "" THEN "raised"
                               ELSE IF saved.success THEN "True" ELSE "False",
                     !.puts = saved.puts,
                     !.requests = saved.requests,
                     !.refetches = saved.refetches,
                     !.stale = (HeldSha(decision.dict) # file.sha),
                     !.mismatch = MetMismatch(HeldSha(decision.dict) # 0, answers1)]

\* request_capital_for_trade after the decision: a return, or the save of
\* the grant
RequestDecided(decision, file) ==
    IF ~decision.saves
    THEN /\ state' = [state EXCEPT !.dict = decision.dict]
         /\ store' = file
         /\ result' = [NoStoreCall EXCEPT !.op = "request",
                                          !.approved = decision.approved,
                                          !.granted = decision.granted,
                                          !.msg = decision.msg]
    ELSE \E answers1 \in PutAnswers(file, HeldSha(decision.dict)) :
         \E answers2 \in RetryAnswers(file, HeldSha(decision.dict), answers1) :
             RequestSaved(decision, file, answers1,
                          SaveStateDict(decision.dict, file, history.clock,
                                        answers1, answers2))

\* request_capital_for_trade after the breaker evaluation, whose save may
\* have raised
RequestChecked(input, checked) ==
    IF checked.raised # ""
    THEN /\ state' = [state EXCEPT !.dict = checked.dict]
         /\ store' = checked.file
         /\ result' = [NoStoreCall EXCEPT !.op = "request",
                                          !.raised = checked.raised]
    ELSE RequestDecided(RequestDecision(checked.dict, input[1], input[2],
                                        input[3]),
                        checked.file)

\* request_capital_for_trade: the breaker evaluation, the decision and, for a
\* grant, _save_state
RequestCapitalForTradeCall ==
    /\ history.ops < MaxStoreOps
    /\ state.constructed
    /\ \E input \in StoreRequestInputs :
       \E check1 \in CheckAnswers(state.dict, store) :
       \E check2 \in RetryAnswers(store, HeldSha(state.dict), check1) :
           RequestChecked(input,
                          CheckBreakersDict(state.dict, store, history.clock,
                                            check1, check2))
    /\ history' = Tick

\* report_trade_close: no breaker evaluation; _save_state, whose return
\* value is dropped, after a close and after a position that was not found
ReportTradeCloseCall ==
    /\ history.ops < MaxStoreOps
    /\ state.constructed
    /\ \E input \in StoreCloseInputs :
           LET decision == CloseDecision(state.dict, input[1], input[2], input[3])
           IN
           \E answers1 \in GrantAnswers(decision.saves, decision.dict, store) :
           \E answers2 \in RetryAnswers(store, HeldSha(decision.dict), answers1) :
               LET saved == SaveStateDict(decision.dict, store, history.clock,
                                          answers1, answers2)
               IN  IF ~decision.saves
                   THEN /\ state' = [state EXCEPT !.dict = decision.dict]
                        /\ store' = store
                        /\ result' = [NoStoreCall EXCEPT
                                         !.op = "close",
                                         !.raised = decision.raised,
                                         !.msg = decision.msg]
                   ELSE /\ state' = [state EXCEPT !.dict = saved.dict]
                        /\ store' = saved.file
                        /\ result' = [NoStoreCall EXCEPT
                                         !.op = "close",
                                         !.raised = saved.raised,
                                         !.msg = decision.msg,
                                         !.saved =
                                             IF saved.raised # "" THEN "raised"
                                             ELSE IF saved.success THEN "True"
                                             ELSE "False",
                                         !.puts = saved.puts,
                                         !.requests = saved.requests,
                                         !.refetches = saved.refetches,
                                         !.stale =
                                             (HeldSha(decision.dict) # store.sha),
                                         !.mismatch =
                                             MetMismatch(HeldSha(decision.dict) # 0,
                                                         answers1)]
    /\ history' = Tick

\* get_full_state_for_ui
GetFullStateForUiCall ==
    /\ state.constructed
    /\ result' = [NoStoreCall EXCEPT !.op = "ui",
                                     !.snapshot = GetFullStateForUi(state.dict)]
    /\ UNCHANGED <<state, store, history>>

\* another process replaces the file
OtherWriter ==
    /\ history.ops < MaxStoreOps
    /\ \E ledger \in {LedgerGenesis, LedgerTraded} :
           store' = WrittenFile(store, Dumps(SetKey(ledger, "last_updated_utc",
                                                    history.clock)))
    /\ UNCHANGED <<state, result>>
    /\ history' = Tick

\* another allocator process on the same file: it loads the document, is
\* asked for capital and saves its grant before anyone else writes
OtherAllocator ==
    /\ history.ops < MaxStoreOps
    /\ store.kind = "json"
    /\ \E input \in OtherRequestInputs :
           LET loaded == LoadState(store, TOTAL_INITIAL_BUDGET_USDT,
                                   history.clock)
               checked == CheckBreakersDict(loaded.dict, store, history.clock,
                                            AllOk, AllOk)
               decision == RequestDecision(checked.dict, input[1], input[2],
                                           input[3])
               saved == SaveStateDict(decision.dict, checked.file,
                                      history.clock, AllOk, AllOk)
           IN  /\ loaded.constructed
               /\ store' = IF decision.saves THEN saved.file ELSE checked.file
    /\ UNCHANGED <<state, result>>
    /\ history' = [Tick EXCEPT !.other_loaded = store.sha]

StoreNext ==
    \/ OtherAllocator
    \/ Construct
    \/ SaveStateCall
    \/ RequestCapitalForTradeCall
    \/ ReportTradeCloseCall
    \/ GetFullStateForUiCall
    \/ OtherWriter

StoreSpec == StoreInit /\ [][StoreNext]_vars

(***************************************************************************)
(* Properties of the persistence                                           *)
(***************************************************************************)
\* the fields of a stored document other than the last-updated timestamp
FieldsOf(file) == PopKey(Loads(file.content), "last_updated_utc")

\* C18: a _save_state made straight after the load of a well-formed document
\* leaves in the store a document whose fields, the last-updated timestamp
\* apart, are those of the document loaded.
C18_SaveAfterLoadKeepsFields ==
    [][(result.op = "load" /\ result'.op = "save" /\ WellFormed(store)
            /\ SaveStateCall)
       => /\ WellFormed(store')
          /\ FieldsOf(store') = FieldsOf(store)]_vars

\* the save after the load of the traded ledger was accepted by the store:
\* a new timestamp and a new sha, the P&L as loaded
C18_Witness ==
    /\ result.op = "save"
    /\ result.after_load
    /\ result.returned
    /\ store.sha = 2
    /\ Loads(store.content)["last_updated_utc"] > 0
    /\ Loads(store.content)["overall_pnl_usdt"] = -1600

\* the keys of the document held by a file of the store
KeysOf(file) == {member[1] : member \in file.content}

\* C19: the snapshot returned by get_full_state_for_ui never contains
\* "_file_sha", and no document that _save_state writes to the store
\* contains it.
C19_ShaNeverExposed ==
    [][/\ (result'.op = "ui" /\ GetFullStateForUiCall)
              => "_file_sha" \notin DOMAIN result'.snapshot
       /\ (store' # store /\ result'.op \in {"save", "request", "close"}
               /\ (SaveStateCall \/ RequestCapitalForTradeCall
                       \/ ReportTradeCloseCall))
              => "_file_sha" \notin KeysOf(store')]_vars

\* a snapshot taken while the dictionary holds the sha of the document in
\* the store, which an allocator wrote after loading the old-schema document
\* with its stray "_file_sha" (the traded ledger, its log filled in anew)
C19_Witness ==
    /\ result.op = "ui"
    /\ "_file_sha" \in DOMAIN state.dict
    /\ state.dict["_file_sha"] = store.sha
    /\ store.kind = "json"
    /\ "log" \in KeysOf(store)
    /\ Loads(store.content)["overall_pnl_usdt"] = -1600
    /\ Loads(store.content)["log"] = <<"Initialized with budget">>
    /\ result.snapshot = Loads(store.content)

\* C20: a save that meets a version-token mismatch re-fetches the token and
\* makes the write exactly once more, and ends by returning (false when the
\* second write fails too), with no further attempt.
C20_MismatchRetriedOnce ==
    (result.op = "save" /\ result.mismatch)
        => /\ result.raised = ""
           /\ result.refetches = 1
           /\ result.requests = 2

\* C21: a request_capital_for_trade whose _save_state returned False, the
\* write of the grant having failed, does not return approved.
C21_FailedSaveIsReported ==
    (result.op = "request" /\ result.saved = "False") => ~result.approved

\* the ids of the positions of a strategy in a stored document
StoredPositionIds(file, strategy_name) ==
    IF file.kind # "json" THEN {}
    ELSE LET positions ==
                 Loads(file.content)["active_positions_by_strategy"][strategy_name]
         IN  {positions[i].id : i \in 1..Len(positions)}

\* C22: when two allocators loaded the same version of the file, the other
\* one saved its position and this one then saves a grant of its own, the
\* save ends without an exception and the stored document holds both
\* positions.
C22_NoLostUpdate ==
    [][(/\ result'.op = "request"
        /\ result'.saved # "not_called"
        /\ state.constructed
        /\ HeldSha(state.dict) = history.other_loaded
        /\ store.sha # history.other_loaded
        /\ "q1" \in StoredPositionIds(store, "crypto_rsi_momentum_altcoins")
        /\ RequestCapitalForTradeCall)
       => /\ result'.raised = ""
          /\ "q1" \in StoredPositionIds(store', "crypto_rsi_momentum_altcoins")
          /\ "p1" \in StoredPositionIds(store', "pionex_btc_eth_grid")]_vars

\* C23: a request_capital_for_trade made while the drawdown has the breaker
\* tripped is answered (approved = false, 0, message) and raises nothing.
C23_RejectionsAreReturned ==
    [][(/\ result'.op = "request"
        /\ state.constructed
        /\ Tripped(CheckCircuitBreakers(state.dict))
        /\ RequestCapitalForTradeCall)
       => /\ result'.raised = ""
          /\ ~result'.approved
          /\ result'.granted = 0
          /\ Tripped(result'.msg)]_vars

\* C25: a report_trade_close for an unknown strategy, or for a position id
\* that is not in the strategy's active list, raises no exception and leaves
\* the strategies, the tiers, the budget, the overall P&L and the position
\* lists as they were.
C25_UnmatchedCloseIsNoOp ==
    [][(/\ result'.op = "close"
        /\ result'.msg \in {"strategy_not_found", "position_not_found"}
        /\ ReportTradeCloseCall)
       => /\ result'.raised = ""
          /\ state'.dict.strategies = state.dict.strategies
          /\ state'.dict.risk_tiers = state.dict.risk_tiers
          /\ state'.dict.current_total_budget_usdt
                 = state.dict.current_total_budget_usdt
          /\ state'.dict.overall_pnl_usdt = state.dict.overall_pnl_usdt
          /\ state'.dict.active_positions_by_strategy
                 = state.dict.active_positions_by_strategy]_vars

\* the ledger of a first run: the budget at its initial value, no P&L, no
\* position, the allocations computed, no version token
IsGenesisLedger(dict) ==
    /\ dict.current_total_budget_usdt = TOTAL_INITIAL_BUDGET_USDT
    /\ dict.peak_total_budget_usdt = TOTAL_INITIAL_BUDGET_USDT
    /\ dict.overall_pnl_usdt = 0
    /\ \A s \in DOMAIN dict.active_positions_by_strategy :
           dict.active_positions_by_strategy[s] = <<>>
    /\ dict.risk_tiers = InitTiers(TOTAL_INITIAL_BUDGET_USDT)
    /\ dict.strategies = InitStrategies(dict.risk_tiers)
    /\ HeldSha(dict) = 0

\* the fields of the stored document as stored, the missing ones as in the
\* default document
IsLoadedLedger(dict, file, now) ==
    LET stored == Loads(file.content)
        default == DefaultTemplate(TOTAL_INITIAL_BUDGET_USDT, now)
    IN  /\ \A k \in DOMAIN stored \ {"_file_sha"} : dict[k] = stored[k]
        /\ \A k \in DOMAIN default \ DOMAIN stored : dict[k] = default[k]

\* C26: the constructor's load ends with a ledger: the genesis ledger when
\* the store has no document or an unparsable one, and otherwise the stored
\* fields with the missing ones filled from the default document.
C26_LoadYieldsLedger ==
    [][(result'.op = "load" /\ Construct)
       => /\ result'.raised = ""
          /\ state'.constructed
          /\ IF store.kind = "json"
             THEN IsLoadedLedger(state'.dict, store, history.clock)
             ELSE IsGenesisLedger(state'.dict)]_vars

(***************************************************************************)
(* BreakerSpec: _check_circuit_breakers on the ledgers of a range of       *)
(* budgets                                                                 *)
(***************************************************************************)
\* current_total_budget_usdt: below, at and above 70% of the initial budget
\* and 80% of each peak
BudgetLevels ==
    {20000, 27990, 28000, 28010, 32000, 38400, 40000, 41600, 41610, 51200,
     51210, 64000}

\* peak_total_budget_usdt: never below the initial budget
PeakLevels == {40000, 52000, 64000}

BreakerStatuses ==
    {"active", "total_drawdown_initial_tripped", "total_drawdown_peak_tripped"}

\* a ledger with the budget, the peak and the status; the status can be the
\* peak-tripped one only after the peak rose above the initial budget
LedgerAt(current, peak, status) ==
    [GenesisState EXCEPT
        !.current_total_budget_usdt = current,
        !.overall_pnl_usdt = current - TOTAL_INITIAL_BUDGET_USDT,
        !.peak_total_budget_usdt = peak,
        !.circuit_breaker_status = status]

NoEvaluation == [NoCall EXCEPT !.op = "none"]

BreakerInit ==
    /\ \E current \in BudgetLevels, peak \in PeakLevels,
          status \in BreakerStatuses :
           /\ status = "total_drawdown_peak_tripped"
                  => peak > TOTAL_INITIAL_BUDGET_USDT
           /\ state = LedgerAt(current, peak, status)
    /\ store = state
    /\ result = NoEvaluation
    /\ history = [before |-> "none"]

\* _check_circuit_breakers: the status, saved at once when it changes
CheckCircuitBreakersCall ==
    /\ state' = AfterCheck(state)
    /\ store' = StoreAfterCheck(state, store, "saved")
    /\ result' = [NoCall EXCEPT !.op = "check",
                                !.msg = CheckCircuitBreakers(state)]
    /\ history' = [before |-> state.circuit_breaker_status]

BreakerNext == CheckCircuitBreakersCall

BreakerSpec == BreakerInit /\ [][BreakerNext]_vars

\* C27: an evaluation of the breaker leaves the drawdown-from-initial status
\* when the budget is 30% or more below the initial budget, whatever the
\* peak; otherwise it leaves the drawdown-from-peak status when the peak is
\* above the initial budget and the budget is 20% or more below the peak;
\* otherwise it trips nothing.
C27_BreakerPrecedence ==
    [][result'.op = "check" =>
        IF (state.initial_budget_usdt - state.current_total_budget_usdt) * 100
               >= 30 * state.initial_budget_usdt
        THEN state'.circuit_breaker_status = "total_drawdown_initial_tripped"
        ELSE IF /\ state.peak_total_budget_usdt > state.initial_budget_usdt
                /\ (state.peak_total_budget_usdt
                        - state.current_total_budget_usdt) * 100
                       >= 20 * state.peak_total_budget_usdt
        THEN state'.circuit_breaker_status = "total_drawdown_peak_tripped"
        ELSE Tripped(state'.circuit_breaker_status)
                 => state'.circuit_breaker_status
                        = state.circuit_breaker_status]_vars

\* both drawdowns are reached (28.00 of an initial 40.00 and a peak of 52.00)
\* and the evaluation moved the status from peak-tripped to initial-tripped
C27_Witness ==
    /\ result.op = "check"
    /\ history.before = "total_drawdown_peak_tripped"
    /\ state.current_total_budget_usdt = 28000
    /\ state.peak_total_budget_usdt = 52000
    /\ state.circuit_breaker_status = "total_drawdown_initial_tripped"

(***************************************************************************)
(* LogSpec: _log_event on event logs below and at the cap                  *)
(***************************************************************************)
\* the lengths of the log before the first event of a behaviour: the one
\* entry of _default_state, and logs that earlier events filled to the cap
LogLengths == {1, 98, 99, 100}

\* the messages of rebalance_allocations and request_capital_for_trade
LogMessages == {"Daily rebalance complete.", "Approved"}

\* the events logged in one behaviour
MaxLogged == 4

\* an entry is the time of the event and its message
LogEntry(clock, message) == <<clock, message>>

LogOf(n) == [i \in 1..n |-> LogEntry(i, "Daily rebalance complete.")]

LogInit ==
    /\ \E n \in LogLengths :
           /\ state = [log |-> LogOf(n)]
           /\ history = [clock |-> n + 1, logged |-> 0]
    /\ store = "none"
    /\ result = [op |-> "none", entry |-> <<>>]

\* self._log_event(message)
LogEventCall ==
    /\ history.logged < MaxLogged
    /\ \E message \in LogMessages :
           /\ state' = LogEvent(state, LogEntry(history.clock, message))
           /\ result' = [op |-> "log",
                         entry |-> LogEntry(history.clock, message)]
    /\ store' = store
    /\ history' = [clock |-> history.clock + 1, logged |-> history.logged + 1]

LogNext == LogEventCall

LogSpec == LogInit /\ [][LogNext]_vars

\* C37: after a logged event the log holds at most 100 entries, and it is
\* the log before with the new entry appended, less its oldest entries when
\* that exceeds 100: the newest 100 in their order.
C37_LogKeepsNewest ==
    [][result'.op = "log" =>
        LET appended == Append(state.log, result'.entry)
            kept == Len(state'.log)
        IN  /\ kept <= 100
            /\ kept = IF Len(appended) > 100 THEN 100 ELSE Len(appended)
            /\ \A i \in 1..kept :
                   state'.log[i] = appended[Len(appended) - kept + i]]_vars

\* a log at the cap took two more events: the entries of times 1 and 2 are
\* gone, the entry of time 3 is the oldest and the new one is the last
C37_Witness ==
    /\ result.op = "log"
    /\ history.logged = 2
    /\ Len(state.log) = 100
    /\ state.log[1][1] = 3
    /\ state.log[100] = result.entry
    /\ result.entry[1] = 102

(***************************************************************************)
(* RetrySpec: create_or_update_file against a store with more answers      *)
(* ready than _request asks for                                            *)
(***************************************************************************)
\* the answers the store has ready for the attempts of one request
MaxAnswers == 4

\* the file in the store: absent, as the allocator loaded it (sha 1), or
\* replaced since by another writer (sha 2)
RetryFiles ==
    {AbsentFile,
     [kind |-> "json", content |-> Dumps(LedgerGenesis), sha |-> 1],
     [kind |-> "json", content |-> Dumps(LedgerTraded), sha |-> 2]}

\* the sha the allocator holds: none, or the one of the file it loaded
HeldShas == {0, 1}

\* the store accepts a write only with the sha of the file it holds, and
\* reports a sha mismatch only for another sha
ReadyAnswers(file, sha) ==
    [1..MaxAnswers ->
        IF sha = file.sha THEN AttemptAnswers \ {"sha_mismatch"}
        ELSE IF sha = 0 THEN AttemptAnswers \ {"ok", "sha_mismatch"}
        ELSE AttemptAnswers \ {"ok"}]

\* answers are drawn for the second PUT only when it is made
ReadyRetryAnswers(file, sha, answers1) ==
    IF GhRequest("PUT", sha # 0, answers1, 0).kind = "sha_mismatch"
    THEN ReadyAnswers(file, file.sha)
    ELSE {[i \in 1..MaxAnswers |-> "ok"]}

NoPut ==
    [op |-> "none", success |-> FALSE, raised |-> "", attempts |-> 0,
     puts |-> 0, requests |-> 0, refetches |-> 0]

RetryInit ==
    /\ store \in RetryFiles
    /\ \E sha \in HeldShas :
           /\ sha <= store.sha
           /\ \E answers1 \in ReadyAnswers(store, sha) :
              \E answers2 \in ReadyRetryAnswers(store, sha, answers1) :
                  state = [current_sha |-> sha, answers1 |-> answers1,
                           answers2 |-> answers2]
    /\ result = NoPut
    /\ history = [before |-> store]

\* self.gh.create_or_update_file(..., current_sha=current_sha)
CreateOrUpdateFileCall ==
    /\ result.op = "none"
    /\ LET done == CreateOrUpdateFile(store, Dumps(LedgerDrawnDown),
                                      state.current_sha, state.answers1,
                                      state.answers2)
       IN  /\ store' = done.file
           /\ result' = [op |-> "put",
                         success |-> done.success,
                         raised |-> done.raised,
                         attempts |-> GhRequest("PUT", state.current_sha # 0,
                                                state.answers1, 0).attempts,
                         puts |-> done.puts,
                         requests |-> done.requests,
                         refetches |-> done.refetches]
    /\ state' = state
    /\ history' = history

RetryNext == CreateOrUpdateFileCall

RetrySpec == RetryInit /\ [][RetryNext]_vars

\* C38: a write to the store ends whatever the store answers: its first
\* request makes at most MAX_RETRIES attempts, it makes at most one re-fetch
\* and one more request after a conflict, and all its requests together make
\* at most MAX_RETRIES attempts each.
C38_BoundedAttempts ==
    result.op = "put"
        => /\ result.attempts \in 1..MAX_RETRIES
           /\ result.refetches \in {0, 1}
           /\ result.requests = 1 + result.refetches
           /\ result.puts <= MAX_RETRIES * result.requests

\* the store was rate limiting on every answer it had ready: the write gave
\* up after MAX_RETRIES attempts, returned False and left the file alone
C38_Witness ==
    /\ result.op = "put"
    /\ \A i \in 1..MaxAnswers : state.answers1[i] = "rate_limited"
    /\ result.attempts = MAX_RETRIES
    /\ result.puts = MAX_RETRIES
    /\ ~result.success
    /\ result.raised = ""
    /\ store = history.before

(***************************************************************************)
(* DeploySpec: the budget check of deploy_single_agent (wave2_agents.py)   *)
(* on the ledger document that BudgetManager loaded                        *)
(***************************************************************************)
\* AGENT_TEMPLATES: requires_budget and default_trade_amount_usdt of each
\* agent type; two templates have no default_trade_amount_usdt
AGENT_TEMPLATES ==
    [crypto_trading_agent |->
        [requires_budget |-> TRUE, default_trade_amount_usdt |-> 10000],
     github_arbitrage_agent |-> [requires_budget |-> FALSE],
     api_wrapper_factory_agent |-> [requires_budget |-> FALSE],
     memecoin_detector_agent |->
        [requires_budget |-> TRUE, default_trade_amount_usdt |-> 5000]]

\* the minimum viable trade amount, 1.0 USDT
MIN_TRADE_AMOUNT_USDT == 1000

\* dict.get(key, default)
GetOr(dict, key, default) == IF key \in DOMAIN dict THEN dict[key] ELSE default

\* self.budget_state = {}: no file, an empty file or unparsable JSON
EmptyBudgetState == <<>>

\* BudgetManager.get_available_capital_for_strategy
GetAvailableCapitalForStrategy(budget_state, strategy_name, default_amount) ==
    IF DOMAIN budget_state = {}
    THEN default_amount
    ELSE LET strategy_details ==
                 GetOr(GetOr(budget_state, "strategies", <<>>),
                       strategy_name, <<>>)
             available == GetOr(strategy_details,
                                "available_for_new_positions_usdt", 0)
         IN  IF available <= 0
             THEN default_amount
             ELSE IF available < default_amount THEN available
                  ELSE default_amount

\* step 0 of deploy_single_agent: the amount allocated, and whether the
\* deployment is skipped for insufficient budget
BudgetCheck(budget_state, agent_type) ==
    LET template_config == AGENT_TEMPLATES[agent_type]
    IN  IF GetOr(template_config, "requires_budget", FALSE)
        THEN LET allocated ==
                     GetAvailableCapitalForStrategy(
                         budget_state, agent_type,
                         GetOr(template_config, "default_trade_amount_usdt",
                               10000))
             IN  [allocated |-> allocated,
                  skipped |-> allocated < MIN_TRADE_AMOUNT_USDT]
        ELSE [allocated |-> GetOr(template_config,
                                  "default_trade_amount_usdt", 0),
              skipped |-> FALSE]

\* agent types passed to deploy_single_agent
AgentTypes == DOMAIN AGENT_TEMPLATES \cup {"no_such_agent"}

\* available_for_new_positions_usdt of the agent's strategy in the ledger:
\* negative, zero, below and at 1.0, below, at and above the defaults
AvailableLevels ==
    {-4800, 0, 500, 999, 1000, 2560, 4990, 5000, 7000, 10000, 12000}

\* the ledger document with available capital recorded for the strategy
BudgetStateWith(strategy_name, available) ==
    [strategies |->
        (strategy_name :>
            [available_for_new_positions_usdt |-> available])]

\* the documents BudgetManager can hold: none, the allocator's ledger (whose
\* strategies are named after STRATEGY_CONFIG), and ledgers that record the
\* agent type as a strategy
BudgetStates(agent_type) ==
    {EmptyBudgetState, [strategies |-> GenesisState.strategies]}
        \cup {BudgetStateWith(agent_type, available) :
                  available \in AvailableLevels}

\* how the platform answers the steps after the budget check
DeployAnswers == {"repo_failed", "file_failed", "deployed"}

NoDeploy ==
    [op |-> "none", returned |-> "None", skipped |-> FALSE, allocated |-> 0]

DeployInit ==
    /\ \E agent_type \in AgentTypes :
           state = [agent_type |-> agent_type]
    /\ store \in BudgetStates(state.agent_type)
    /\ result = NoDeploy
    /\ history = [deployed_agent_count |-> 0]

\* deploy_single_agent(agent_type) for an agent type of AGENT_TEMPLATES
DeploySingleAgent ==
    /\ result.op = "none"
    /\ state.agent_type \in DOMAIN AGENT_TEMPLATES
    /\ LET checked == BudgetCheck(store, state.agent_type)
       IN  \E answer \in DeployAnswers :
               LET deployed == ~checked.skipped /\ answer = "deployed"
               IN  /\ result' = [op |-> "deploy",
                                 returned |-> IF deployed THEN "repo"
                                              ELSE "None",
                                 skipped |-> checked.skipped,
                                 allocated |-> checked.allocated]
                   /\ history' = [deployed_agent_count |->
                                     IF deployed THEN 1 ELSE 0]
    /\ UNCHANGED <<state, store>>

\* deploy_single_agent(agent_type) for an unknown agent type
DeployUnknownAgent ==
    /\ result.op = "none"
    /\ state.agent_type \notin DOMAIN AGENT_TEMPLATES
    /\ result' = [NoDeploy EXCEPT !.op = "deploy"]
    /\ UNCHANGED <<state, store, history>>

DeployNext == DeploySingleAgent \/ DeployUnknownAgent

DeploySpec == DeployInit /\ [][DeployNext]_vars

\* the ledger records available_for_new_positions_usdt for the agent's
\* strategy
LedgerShows(budget_state, agent_type) ==
    /\ "strategies" \in DOMAIN budget_state
    /\ agent_type \in DOMAIN budget_state.strategies

====
